---- MODULE Spec2Model ----
(***************************************************************************)
(* vim-dashboard: the connection pool (database/base.py) and the scheduler *)
(* with its dashboard tasks (scheduler.py, core.py) as state machines.     *)
(*                                                                         *)
(* Two threads of control exist in the program: the editor's main thread   *)
(* and the scheduler's background loop.  Both can reach the module-level   *)
(* connection pool, which has no lock of its own.                          *)
(***************************************************************************)
EXTENDS Integers, Sequences, FiniteSets, TLC

\* ------------------------------------------------------------------ bounds
\* Connection objects one pool list holds before every further connect fails.
MaxPool == 6
\* Connections callers keep checked out at the same time.
MaxHeld == 6
\* Tasks the scheduler creates (task ids handed out) in one run.
MaxTasks == 2
\* Seconds of wall-clock time the model follows after the start.
Horizon == 3
\* edits of one config file on disk
MaxEdits == 1
\* seconds followed where the countdown refresh is studied
LongHorizon == 13
\* Connections of one url the database accepts from the scheduler's tasks.
MaxRuns == 2
\* Failures of one task the environment produces before it stops failing it.
MaxErrors == 1

\* ------------------------------------------------------- program constants
\* ConnectionPool.__init__(max_connections = 5)
max_connections == 5

DbUrls == {"db1"}

\* time.time() when the editor session starts (any value > 0: seconds since
\* the epoch)
StartTime == 100
MaxTime == StartTime + Horizon

Threads == {"editor", "loop"}
TaskIds == 1..MaxTasks

\* Absolute paths of the dashboard config files on disk.
ConfigFiles == {"/a/x.yaml", "/a/y.yaml", "/b/x.yaml"}

VARIABLES
    \* ---- ConnectionPool (database/base.py)
    pool_keys,            \* the keys of _pools and _active_connections
    pools,                \* _pools: url -> list of connection objects, each
                          \*   entry given by its is_connected flag
    active_connections,   \* _active_connections: url -> count
    \* ---- the callers of the pool
    checked_out,          \* url -> connections obtained and not yet returned
    pool_ret              \* outcome of the last get_connection

poolVars == <<pool_keys, pools, active_connections, checked_out, pool_ret>>

VARIABLES
    \* ---- DashboardScheduler / DashboardTask (scheduler.py)
    now,                  \* time.time()
    next_id,              \* task ids handed out so far + 1
    task,                 \* the DashboardTask objects, by task_id
    tasks,                \* DashboardScheduler.tasks: the registered task ids
    lock,                 \* DashboardScheduler.lock: "free" or its holder
    files,                \* the temp directory: path -> content
    ex,                   \* per thread: its call of DashboardTask.execute()
    ed,                   \* the editor thread: the command it is in
    lp,                   \* the background loop: its position
    \* ---- history, for the properties
    last_loop_exec,       \* the loop's latest execute() that ran: task, end
    last_success,         \* per task: when its latest successful execute()
                          \*   ended, 0 while it has none
    rewrites,             \* per task: the times at which its
                          \*   update_countdown_display() rewrote the temp file
    \* ---- a function of the program applied to given arguments
    call,                 \* the function, its arguments and what it returned
    \* ---- the configuration files on disk
    disk                  \* per config file: the revision of its content

histVars == <<last_loop_exec, last_success, rewrites>>

envVars == <<call, disk>>

schedVars == <<now, next_id, task, tasks, lock, files, ex, ed, lp, histVars, envVars>>

vars == <<poolVars, schedVars>>

\* ----------------------------------------------------------------- helpers
Max(a, b) == IF a >= b THEN a ELSE b

\* the list without its k-th entry
RemoveAt(s, k) == [j \in 1..(Len(s) - 1) |-> IF j < k THEN s[j] ELSE s[j + 1]]

\* =========================================================================
\* ConnectionPool
\* =========================================================================

\* The reuse loop of get_connection, from iterator position i on.  Connected
\* entries are passed over.  At a not-connected entry connect() is called: it
\* raises for the first nfail such entries, each of which is removed from the
\* list (the iterator has moved on by then, so the entry that slides into the
\* freed position is passed over), and returns True for the next one.
RECURSIVE ReuseLoop(_, _, _)
ReuseLoop(lst, i, nfail) ==
    IF i > Len(lst) THEN [lst |-> lst, hit |-> FALSE]
    ELSE IF lst[i] THEN ReuseLoop(lst, i + 1, nfail)
    ELSE IF nfail = 0 THEN [lst |-> [lst EXCEPT ![i] = TRUE], hit |-> TRUE]
    ELSE ReuseLoop(RemoveAt(lst, i), i + 1, nfail - 1)

\* The check that guards the creation of a new connection.
UnderLimit(n) == n < max_connections

\* get_connection(url) on the list lst and the count act of the url.
\* create_ok: DatabaseManager.create_connection and connect() succeed.
GetConnectionResult(lst, act, nfail, create_ok) ==
    LET r == ReuseLoop(lst, 1, nfail)
    IN  IF r.hit
        THEN [lst |-> r.lst, act |-> act + 1, ret |-> "reused"]
        ELSE IF UnderLimit(act)
        THEN IF create_ok
             THEN [lst |-> Append(r.lst, TRUE), act |-> act + 1, ret |-> "created"]
             ELSE [lst |-> r.lst, act |-> act, ret |-> "failed"]
        ELSE [lst |-> r.lst, act |-> act, ret |-> "exhausted"]

Obtained(ret) == ret \in {"reused", "created"}

NotConnected(lst) == {k \in 1..Len(lst) : ~lst[k]}

\* get_connection(url): a new key gets an empty list and a count of 0.
GetConnection(u, nfail, create_ok) ==
    LET r == GetConnectionResult(pools[u], active_connections[u], nfail, create_ok)
    IN  /\ nfail <= Cardinality(NotConnected(pools[u]))
        /\ create_ok => Len(pools[u]) < MaxPool
        /\ checked_out[u] < MaxHeld
        /\ pool_keys' = pool_keys \cup {u}
        /\ pools' = [pools EXCEPT ![u] = r.lst]
        /\ active_connections' = [active_connections EXCEPT ![u] = r.act]
        /\ pool_ret' = r.ret
        /\ checked_out' = [checked_out EXCEPT ![u] =
                              IF Obtained(r.ret) THEN @ + 1 ELSE @]

\* return_connection(url, connection): the count goes down, floored at 0; the
\* connection object is left as it is.
ReturnedNoDecrement(n) == n
Returned(n) == Max(0, n - 1)

ReturnConnection(u) ==
    /\ checked_out[u] > 0
    /\ checked_out' = [checked_out EXCEPT ![u] = @ - 1]
    /\ active_connections' =
          IF u \in pool_keys
          THEN [active_connections EXCEPT ![u] = Returned(@)]
          ELSE active_connections
    /\ pool_ret' = "none"
    /\ UNCHANGED <<pool_keys, pools>>

\* close_all_connections(url) with us = {url}; without a url, us = the keys.
\* Every pooled connection of the url is disconnected, its list is replaced by
\* an empty one and its count is set to 0.
CloseAllConnections(us) ==
    /\ pools' = [u \in DbUrls |->
                    IF u \in us \cap pool_keys THEN <<>> ELSE pools[u]]
    /\ active_connections' = [u \in DbUrls |->
                    IF u \in us \cap pool_keys THEN 0 ELSE active_connections[u]]
    /\ pool_ret' = "none"
    /\ UNCHANGED <<pool_keys, checked_out>>

\* DatabaseConnection.disconnect() on the k-th pooled connection of the url:
\* whoever obtained the object keeps the reference, before and after
\* returning it.
Disconnect(u, k) ==
    /\ k \in 1..Len(pools[u])
    /\ pools[u][k]
    /\ pools' = [pools EXCEPT ![u][k] = FALSE]
    /\ pool_ret' = "none"
    /\ UNCHANGED <<pool_keys, active_connections, checked_out>>

InitPool ==
    /\ pool_keys = {}
    /\ pools = [u \in DbUrls |-> <<>>]
    /\ active_connections = [u \in DbUrls |-> 0]
    /\ checked_out = [u \in DbUrls |-> 0]
    /\ pool_ret = "none"

NextPool ==
    \/ \E u \in DbUrls, nfail \in 0..MaxPool, create_ok \in BOOLEAN :
          GetConnection(u, nfail, create_ok) /\ UNCHANGED schedVars
    \/ \E u \in DbUrls : ReturnConnection(u) /\ UNCHANGED schedVars
    \/ \E u \in DbUrls : CloseAllConnections({u}) /\ UNCHANGED schedVars
    \/ CloseAllConnections(pool_keys) /\ UNCHANGED schedVars
    \/ \E u \in DbUrls, k \in 1..MaxPool : Disconnect(u, k) /\ UNCHANGED schedVars

\* =========================================================================
\* DashboardTask
\* =========================================================================

\* parse_interval(show.interval or interval) of the config file's content
IntervalOf(cfg) ==
    IF cfg = "/b/x.yaml" THEN 3 ELSE IF cfg = "/a/y.yaml" THEN 11 ELSE 2

\* database.url of the config file's content
DbUrlOf(cfg) == "db1"

\* os.path.splitext(os.path.basename(config_file))[0]
Basename(cfg) == IF cfg = "/a/y.yaml" THEN "y" ELSE "x"

TempPaths == {Basename(cfg) : cfg \in ConfigFiles}

\* get_temp_file_path(): <temp dir>/<config basename>.dashboard
TempFilePath(tk) == Basename(tk.config_file)

\* ---- template variables (query.args of the config file)

\* The names the config files declare under query.args.
VarNames == {"n", "b"}

\* 'type' of a declared variable
VarType(name) == IF name = "n" THEN "number" ELSE "boolean"

\* A value of a variable: the Python type it has and its text.
NoValue == [kind |-> "none", text |-> ""]

\* 'default' of a declared variable
VarDefault(name) ==
    IF name = "n" THEN [kind |-> "int", text |-> "1"]
    ELSE [kind |-> "bool", text |-> "False"]

\* The values the editor command passes (always strings) and the names it
\* passes.
RawValues == {"7", "abc", "yes", "maybe"}
ArgNames == VarNames \cup {"zz"}

\* The strings int() accepts.
IntStrings == {"7"}

\* update_variable: the conversion of the new value by the declared type.
\* number: int(new_value) (no '.' in these strings), which raises ValueError
\* on other text; boolean: membership of the lowered text in
\* ('true', '1', 'yes', 'on'), which never raises.
CoerceValue(type, raw) ==
    IF type = "number"
    THEN IF raw \in IntStrings
         THEN [ok |-> TRUE, value |-> [kind |-> "int", text |-> raw]]
         ELSE [ok |-> FALSE, value |-> NoValue]
    ELSE IF type = "boolean"
    THEN [ok |-> TRUE,
          value |-> [kind |-> "bool",
                     text |-> IF raw \in {"true", "1", "yes", "on"}
                              THEN "True" ELSE "False"]]
    ELSE [ok |-> TRUE, value |-> [kind |-> "str", text |-> raw]]

\* _load_variables_info: current_value of each declared variable
LoadVariablesInfo(runtime) ==
    [v \in VarNames |-> IF runtime[v] # NoValue THEN runtime[v]
                        ELSE VarDefault(v)]

NoRuntimeVariables == [v \in VarNames |-> NoValue]

NoTask == [config_file |-> "none", interval |-> 0, last_run |-> 0,
           is_running |-> FALSE, error_count |-> 0, last_error |-> "none",
           creation_time |-> 0, last_countdown_update |-> 0, config |-> 0,
           runtime_variables |-> NoRuntimeVariables,
           variables_info |-> NoRuntimeVariables]

\* DashboardTask.__init__
NewTask(cfg, time, config) ==
    [config_file |-> cfg, interval |-> IntervalOf(cfg), last_run |-> 0,
     is_running |-> FALSE, error_count |-> 0, last_error |-> "none",
     creation_time |-> time, last_countdown_update |-> 0, config |-> config,
     runtime_variables |-> NoRuntimeVariables,
     variables_info |-> LoadVariablesInfo(NoRuntimeVariables)]

\* DashboardTask.update_variable(var_name, new_value): the task afterwards and
\* the value returned.
TaskUpdateVariable(tk, name, raw) ==
    IF name \notin VarNames THEN [task |-> tk, ret |-> FALSE]
    ELSE LET c == CoerceValue(VarType(name), raw)
         IN  IF c.ok
             THEN [task |-> [tk EXCEPT !.runtime_variables[name] = c.value,
                                       !.variables_info[name] = c.value],
                   ret |-> TRUE]
             ELSE [task |-> [tk EXCEPT !.last_error = "invalid value"],
                   ret |-> FALSE]

\* DashboardTask.reset_variables()
TaskResetVariablesClearOnly(tk) ==
    [tk EXCEPT !.runtime_variables = NoRuntimeVariables]
TaskResetVariables(tk) ==
    [tk EXCEPT !.runtime_variables = NoRuntimeVariables,
               !.variables_info = [v \in VarNames |-> VarDefault(v)]]

\* should_run(): measured from the creation time while last_run is 0
ShouldRunFromLastRunOnly(tk, time) == (time - tk.last_run) >= tk.interval
ShouldRun(tk, time) ==
    IF tk.last_run = 0
    THEN (time - tk.creation_time) >= tk.interval
    ELSE (time - tk.last_run) >= tk.interval

\* get_remaining_time(): the whole seconds until the next refresh.  Times are
\* counted in units of 1/unit second, the interval in seconds.
GetRemainingTime(tk, time, unit) ==
    IF tk.is_running THEN 0
    ELSE LET elapsed == IF tk.last_run = 0 THEN time - tk.creation_time
                        ELSE time - tk.last_run
         IN  Max(0, tk.interval * unit - elapsed) \div unit

\* format(n, "02d")
Pad2(n) == IF n < 10 THEN "0" \o ToString(n) ELSE ToString(n)

\* get_countdown_display(), from the remaining seconds it computes
SecondsPerHour == 3600
FormatCountdownAlwaysClock(remaining) ==
    Pad2((remaining % SecondsPerHour) \div 60) \o ":" \o Pad2(remaining % 60)
FormatCountdown(remaining) ==
    IF remaining = 0 THEN "Refreshing..."
    ELSE LET hours == remaining \div SecondsPerHour
             minutes == (remaining % SecondsPerHour) \div 60
             seconds == remaining % 60
         IN  IF hours > 0
             THEN Pad2(hours) \o ":" \o Pad2(minutes) \o ":" \o Pad2(seconds)
             ELSE Pad2(minutes) \o ":" \o Pad2(seconds)

GetCountdownDisplay(tk, time, unit) ==
    FormatCountdown(GetRemainingTime(tk, time, unit))

\* should_update_countdown()
countdown_period == 10
ShouldUpdateCountdownAlways(tk, time) == TRUE
ShouldUpdateCountdown(tk, time) ==
    (time - tk.last_countdown_update) >= countdown_period

\* A temp file that does not exist.  A file that exists holds a chart or an
\* error text written for a task; countdown is the text after "Next refresh: "
\* in it, "none" when the content has no such text.
Absent == [kind |-> "absent", task |-> 0, countdown |-> "none",
           query |-> 0, show |-> 0]

\* re.search(countdown_pattern, content)
HasCountdownPattern(content) == content.countdown # "none"

NoExec == [pc |-> "none", task |-> 0, conn |-> FALSE, err |-> FALSE,
           ret |-> "none", step |-> "none"]

\* The steps of the try block after the connection is acquired.
FailSteps == {"load_config", "get_query", "execute_query", "render_chart",
              "write"}

\* DatabaseManager.get_connection(url), the call of execute(): the pooled
\* connection of the Database Layer.
DbManagerGetConnection(u, nfail, create_ok) == GetConnection(u, nfail, create_ok)

\* DatabaseManager.connection_pool.return_connection(url, connection), the
\* call of the finally block.
DbManagerReturnConnection(u) == ReturnConnection(u)

\* execute(), first statement: `if self.is_running: return False`
ExecuteGuardNoCheck(t) ==
    /\ ex[t].pc = "guard"
    /\ ex' = [ex EXCEPT ![t] = [@ EXCEPT !.pc = "start"]]
    /\ UNCHANGED <<poolVars, now, next_id, task, tasks, lock, files, ed, lp,
                   histVars, envVars>>
ExecuteGuardTestAndSet(t) ==
    /\ ex[t].pc = "guard"
    /\ IF task[ex[t].task].is_running
       THEN /\ ex' = [ex EXCEPT ![t] = [@ EXCEPT !.pc = "done", !.ret = "false",
                                                   !.step = "guard"]]
            /\ task' = task
       ELSE /\ ex' = [ex EXCEPT ![t] = [@ EXCEPT !.pc = "start"]]
            /\ task' = [task EXCEPT ![ex[t].task].is_running = TRUE]
    /\ UNCHANGED <<poolVars, now, next_id, tasks, lock, files, ed, lp,
                   histVars, envVars>>
ExecuteGuard(t) ==
    /\ ex[t].pc = "guard"
    /\ IF task[ex[t].task].is_running
       THEN ex' = [ex EXCEPT ![t] = [@ EXCEPT !.pc = "done", !.ret = "false",
                                              !.step = "guard"]]
       ELSE ex' = [ex EXCEPT ![t] = [@ EXCEPT !.pc = "start"]]
    /\ UNCHANGED <<poolVars, now, next_id, task, tasks, lock, files, ed, lp,
                   histVars, envVars>>

\* execute(): `self.is_running = True`, then the connection is asked of the
\* pool for the task's database url.  No connection leaves an exception
\* pending for the handler.
ExecuteStart(t) ==
    LET id == ex[t].task
        u == DbUrlOf(task[id].config_file)
    IN  /\ ex[t].pc = "start"
        /\ task' = [task EXCEPT ![id].is_running = TRUE]
        /\ \E nfail \in 0..MaxPool, create_ok \in BOOLEAN :
              /\ create_ok \/ task[id].error_count < MaxErrors
              /\ create_ok => Len(pools[u]) < MaxRuns
              /\ DbManagerGetConnection(u, nfail, create_ok)
        /\ ex' = [ex EXCEPT ![t] = [@ EXCEPT !.pc = "run",
                                            !.conn = Obtained(pool_ret'),
                                            !.err = ~Obtained(pool_ret')]]
        /\ UNCHANGED <<now, next_id, tasks, lock, files, ed, lp, histVars, envVars>>

\* The status update at the end of the try block.
Succeeded(tk, time) ==
    [tk EXCEPT !.last_run = time, !.error_count = 0, !.last_error = "none"]

\* The bookkeeping of the except block.
FailedStampsLastRun(tk, time) ==
    [tk EXCEPT !.error_count = @ + 1, !.last_error = "error", !.last_run = time]
Failed(tk, time) ==
    [tk EXCEPT !.error_count = @ + 1, !.last_error = "error"]

\* The finally block: is_running is cleared.
FinallyKeepsRunning(tk) == tk
Finally(tk) == [tk EXCEPT !.is_running = FALSE]

\* The finally block: `if connection and db_url: return_connection(...)`
FinallyReturn(has_conn, u) ==
    IF has_conn THEN DbManagerReturnConnection(u) ELSE UNCHANGED poolVars

\* execute(): `self.config_manager.load_config(self.config_file)` followed by
\* `self.config_manager.get_query()`: the query of the revision on disk.
ReloadedQuery(tk) == disk[tk.config_file]

\* execute(): `self.config.get('show', {})`, from the configuration the task
\* was constructed with.
ShowConfig(tk) == tk.config

\* execute(), the rest of the try block with its handler and its finally
\* block.  outcome: "ok", or the step that raises; write_ok: the handler's
\* write of the error text succeeds (otherwise its exception leaves execute()).
ExecuteFinish(t, outcome, write_ok) ==
    LET id == ex[t].task
        tk == task[id]
        u == DbUrlOf(tk.config_file)
        path == TempFilePath(tk)
        ok == outcome = "ok" /\ ~ex[t].err
    IN  /\ ex[t].pc = "run"
        /\ ex[t].err => outcome = "get_connection"
        /\ ~ex[t].err => outcome \in {"ok"} \cup FailSteps
        /\ (outcome \in FailSteps) => tk.error_count < MaxErrors
        /\ ok => write_ok
        /\ IF ok
           THEN /\ files' = [files EXCEPT ![path] =
                              [kind |-> "chart", task |-> id,
                               countdown |-> GetCountdownDisplay(tk, now, 1),
                               query |-> ReloadedQuery(tk),
                               show |-> ShowConfig(tk)]]
                /\ task' = [task EXCEPT ![id] = Finally(Succeeded(tk, now))]
                /\ ex' = [ex EXCEPT ![t] = [@ EXCEPT !.pc = "done", !.ret = "true",
                                                    !.step = "body"]]
           ELSE /\ files' = IF write_ok
                            THEN [files EXCEPT ![path] =
                                      [kind |-> "error", task |-> id,
                                       countdown |-> "none",
                                       query |-> 0, show |-> 0]]
                            ELSE files
                /\ task' = [task EXCEPT ![id] = Finally(Failed(tk, now))]
                /\ ex' = [ex EXCEPT ![t] = [@ EXCEPT !.pc = "done",
                              !.ret = IF write_ok THEN "false" ELSE "raised",
                              !.step = "body"]]
        /\ last_success' = IF ok THEN [last_success EXCEPT ![id] = now]
                            ELSE last_success
        /\ last_loop_exec' = IF t = "loop" THEN [task |-> id, at |-> now]
                             ELSE last_loop_exec
        /\ FinallyReturn(ex[t].conn, u)
        /\ UNCHANGED <<now, next_id, tasks, lock, ed, lp, rewrites, envVars>>

\* cleanup(): the temp file is removed.
CleanupFiles(tk) ==
    [files EXCEPT ![TempFilePath(tk)] = Absent]

\* =========================================================================
\* DashboardScheduler and the editor commands (core.py)
\* =========================================================================

EdIdle == [op |-> "idle", res |-> "none", task |-> 0]

\* get_task_by_config_file: the first registered task with that config_file
TasksOf(cfg) == {id \in tasks : task[id].config_file = cfg}
GetTaskByConfigFile(cfg) == CHOOSE id \in TasksOf(cfg) : \A j \in TasksOf(cfg) : id <= j

\* start_dashboard: `existing_task = get_task_by_config_file(config_file)`
ExistingTaskIgnored(cfg) == FALSE
ExistingTask(cfg) == TasksOf(cfg) # {}

\* start_dashboard(config_file) on a config file that has a task: the task is
\* reused and its temp file opened.
StartDashboardExisting(cfg) ==
    /\ ed.op = "idle"
    /\ lock = "free"
    /\ ExistingTask(cfg)
    /\ ed' = [EdIdle EXCEPT !.res = "reused"]
    /\ UNCHANGED <<poolVars, now, next_id, task, tasks, lock, files, ex, lp,
                   histVars, envVars>>

\* start_dashboard(config_file) without a task for it: add_task creates the
\* task under the lock and goes on to execute it, still under the lock.
StartDashboardNew(cfg) ==
    /\ ed.op = "idle"
    /\ lock = "free"
    /\ ~ExistingTask(cfg)
    /\ next_id <= MaxTasks
    /\ task' = [task EXCEPT ![next_id] = NewTask(cfg, now, disk[cfg])]
    /\ tasks' = tasks \cup {next_id}
    /\ next_id' = next_id + 1
    /\ lock' = "editor"
    /\ ed' = [EdIdle EXCEPT !.op = "add_task"]
    /\ ex' = [ex EXCEPT !["editor"] = [NoExec EXCEPT !.pc = "guard",
                                                     !.task = next_id]]
    /\ UNCHANGED <<poolVars, now, files, lp, histVars, envVars>>

\* ConnectionPool.cleanup_idle_connections(url), the call of cleanup(): the
\* idle (not-connected) pooled connections of the url are dropped.
CleanupIdleConnections(u) ==
    [pools EXCEPT ![u] = SelectSeq(@, LAMBDA c : c)]

\* remove_task(task_id) on a registered id, up to the end of task.cleanup():
\* under the lock, the idle connections of the task's url are dropped and its
\* temp file is removed.
RemoveTaskCleanup(id) ==
    /\ ed.op = "idle"
    /\ lock = "free"
    /\ id \in tasks
    /\ lock' = "editor"
    /\ pools' = CleanupIdleConnections(DbUrlOf(task[id].config_file))
    /\ files' = CleanupFiles(task[id])
    /\ ed' = [EdIdle EXCEPT !.op = "remove_task", !.task = id]
    /\ UNCHANGED <<pool_keys, active_connections, checked_out, pool_ret, now,
                   next_id, task, tasks, ex, lp, histVars, envVars>>

\* remove_task(task_id): `del self.tasks[task_id]`, the lock is released and
\* True returned.
RemoveTaskDelete ==
    /\ ed.op = "remove_task"
    /\ tasks' = tasks \ {ed.task}
    /\ lock' = "free"
    /\ ed' = [EdIdle EXCEPT !.res = "removed", !.task = ed.task]
    /\ UNCHANGED <<poolVars, now, next_id, task, files, ex, lp, histVars, envVars>>

\* remove_task(task_id) on an id that is not in the table: False.
RemoveTaskUnknown(id) ==
    /\ ed.op = "idle"
    /\ lock = "free"
    /\ id \notin tasks
    /\ ed' = [EdIdle EXCEPT !.res = "not_found", !.task = id]
    /\ UNCHANGED <<poolVars, now, next_id, task, tasks, lock, files, ex, lp,
                   histVars, envVars>>

\* stop_dashboard(config_file): remove_task of the task found for the path.
StopDashboard(cfg) ==
    /\ TasksOf(cfg) # {}
    /\ RemoveTaskCleanup(GetTaskByConfigFile(cfg))

\* restart_task(task_id): execute() under the lock.
RestartTask(id) ==
    /\ ed.op = "idle"
    /\ lock = "free"
    /\ id \in tasks
    /\ lock' = "editor"
    /\ ed' = [EdIdle EXCEPT !.op = "restart_task"]
    /\ ex' = [ex EXCEPT !["editor"] = [NoExec EXCEPT !.pc = "guard", !.task = id]]
    /\ UNCHANGED <<poolVars, now, next_id, task, tasks, files, lp, histVars, envVars>>

\* restart_task_by_config_file(config_file): the lock is held for the lookup
\* only, execute() runs without it.
RestartTaskByConfigFile(cfg) ==
    /\ ed.op = "idle"
    /\ lock = "free"
    /\ TasksOf(cfg) # {}
    /\ ed' = [EdIdle EXCEPT !.op = "restart_by_config_file"]
    /\ ex' = [ex EXCEPT !["editor"] = [NoExec EXCEPT !.pc = "guard",
                                          !.task = GetTaskByConfigFile(cfg)]]
    /\ UNCHANGED <<poolVars, now, next_id, task, tasks, lock, files, lp,
                   histVars, envVars>>

\* update_variable(task_id, var_name, new_value): under the lock, the task's
\* update_variable and, when it returned True, execute().
UpdateVariable(id, name, raw) ==
    LET r == TaskUpdateVariable(task[id], name, raw)
    IN  /\ ed.op = "idle"
        /\ lock = "free"
        /\ id \in tasks
        /\ task' = [task EXCEPT ![id] = r.task]
        /\ IF r.ret
           THEN /\ lock' = "editor"
                /\ ed' = [EdIdle EXCEPT !.op = "update_variable", !.task = id]
                /\ ex' = [ex EXCEPT !["editor"] =
                              [NoExec EXCEPT !.pc = "guard", !.task = id]]
           ELSE /\ ed' = [EdIdle EXCEPT !.res = "false", !.task = id]
                /\ UNCHANGED <<lock, ex>>
        /\ UNCHANGED <<poolVars, now, next_id, tasks, files, lp, histVars, envVars>>

\* update_variable_by_config_file(config_file, var_name, new_value): the same
\* without the lock.
UpdateVariableByConfigFile(cfg, name, raw) ==
    /\ ed.op = "idle"
    /\ lock = "free"
    /\ TasksOf(cfg) # {}
    /\ LET id == GetTaskByConfigFile(cfg)
           r == TaskUpdateVariable(task[id], name, raw)
       IN  /\ task' = [task EXCEPT ![id] = r.task]
           /\ IF r.ret
              THEN /\ ed' = [EdIdle EXCEPT !.op = "update_by_config_file",
                                           !.task = id]
                   /\ ex' = [ex EXCEPT !["editor"] =
                                 [NoExec EXCEPT !.pc = "guard", !.task = id]]
              ELSE /\ ed' = [EdIdle EXCEPT !.res = "false", !.task = id]
                   /\ ex' = ex
    /\ UNCHANGED <<poolVars, now, next_id, tasks, lock, files, lp, histVars, envVars>>

\* reset_variables(task_id): under the lock, the task's reset_variables and
\* execute().
ResetVariables(id) ==
    /\ ed.op = "idle"
    /\ lock = "free"
    /\ id \in tasks
    /\ task' = [task EXCEPT ![id] = TaskResetVariables(@)]
    /\ lock' = "editor"
    /\ ed' = [EdIdle EXCEPT !.op = "reset_variables", !.task = id]
    /\ ex' = [ex EXCEPT !["editor"] = [NoExec EXCEPT !.pc = "guard", !.task = id]]
    /\ UNCHANGED <<poolVars, now, next_id, tasks, files, lp, histVars, envVars>>

\* The editor command returns once its execute() has: the lock is released.
EditorReturn ==
    /\ ed.op \notin {"idle", "remove_task"}
    /\ ex["editor"].pc = "done"
    /\ lock' = "free"
    /\ ed' = EdIdle
    /\ ex' = [ex EXCEPT !["editor"] = NoExec]
    /\ UNCHANGED <<poolVars, now, next_id, task, tasks, files, lp, histVars, envVars>>

\* ---- the background loop

RECURSIVE DueTasks(_, _)
DueTasks(ids, time) ==
    IF ids = {} THEN <<>>
    ELSE LET id == CHOOSE i \in ids : \A j \in ids : i <= j
         IN  (IF ShouldRun(task[id], time) /\ ~task[id].is_running
              THEN <<id>> ELSE <<>>) \o DueTasks(ids \ {id}, time)

RECURSIVE CountdownTasks(_, _)
CountdownTasks(ids, time) ==
    IF ids = {} THEN <<>>
    ELSE LET id == CHOOSE i \in ids : \A j \in ids : i <= j
         IN  (IF ShouldUpdateCountdown(task[id], time)
              THEN <<id>> ELSE <<>>) \o CountdownTasks(ids \ {id}, time)

LoopIdle == [pc |-> "snapshot", tasks_to_run |-> <<>>,
             tasks_to_update_countdown |-> <<>>, content |-> Absent]

\* _scheduler_loop: under the lock, the registered tasks that are due and not
\* running are collected, in the order of the table, and those whose
\* countdown is to be refreshed.
LoopSnapshot ==
    /\ lp.pc = "snapshot"
    /\ lock = "free"
    /\ lp' = [pc |-> "run", tasks_to_run |-> DueTasks(tasks, now),
              tasks_to_update_countdown |-> CountdownTasks(tasks, now),
              content |-> Absent]
    /\ UNCHANGED <<poolVars, now, next_id, task, tasks, lock, files, ex, ed,
                   histVars, envVars>>

\* _scheduler_loop: `task.execute()` for the next collected task, outside the
\* lock.
LoopExecuteSkips ==
    /\ lp.pc = "run"
    /\ lp.tasks_to_run # <<>>
    /\ ex["loop"].pc = "none"
    /\ lp' = [lp EXCEPT !.tasks_to_run = Tail(@)]
    /\ UNCHANGED <<poolVars, now, next_id, task, tasks, lock, files, ex, ed,
                   histVars, envVars>>
LoopExecute ==
    /\ lp.pc = "run"
    /\ lp.tasks_to_run # <<>>
    /\ ex["loop"].pc = "none"
    /\ ex' = [ex EXCEPT !["loop"] = [NoExec EXCEPT !.pc = "guard",
                                        !.task = Head(lp.tasks_to_run)]]
    /\ UNCHANGED <<poolVars, now, next_id, task, tasks, lock, files, ed, lp,
                   histVars, envVars>>

\* The loop's execute() has returned or raised (the loop prints the error and
\* goes on).
LoopExecuted ==
    /\ lp.pc = "run"
    /\ ex["loop"].pc = "done"
    /\ lp' = [lp EXCEPT !.tasks_to_run = Tail(@)]
    /\ ex' = [ex EXCEPT !["loop"] = NoExec]
    /\ UNCHANGED <<poolVars, now, next_id, task, tasks, lock, files, ed,
                   histVars, envVars>>

\* _scheduler_loop: `task.update_countdown_display()` for the next task
\* collected for it, after the executions of the round, outside the lock, up
\* to `content = f.read()`: the call returns False at once when no refresh is
\* due or the temp file does not exist, otherwise the content of the file is
\* read.
LoopReadCountdown ==
    /\ lp.pc = "run"
    /\ lp.tasks_to_run = <<>>
    /\ ex["loop"].pc = "none"
    /\ lp.tasks_to_update_countdown # <<>>
    /\ LET tk == task[Head(lp.tasks_to_update_countdown)]
           content == files[TempFilePath(tk)]
       IN  lp' = IF ShouldUpdateCountdown(tk, now) /\ content.kind # "absent"
                 THEN [lp EXCEPT !.pc = "countdown", !.content = content]
                 ELSE [lp EXCEPT !.tasks_to_update_countdown = Tail(@)]
    /\ UNCHANGED <<poolVars, now, next_id, task, tasks, lock, files, ex, ed,
                   histVars, envVars>>

\* update_countdown_display() of one task from the content it has read, at
\* the given time: the task and the temp directory afterwards, and whether
\* the file was rewritten.  The content read is written back with the
\* countdown text replaced.  write_ok: the file can be opened and written.
UpdateCountdownDisplay(id, time, content, write_ok) ==
    LET tk == task[id]
        path == TempFilePath(tk)
        rewrite == HasCountdownPattern(content) /\ write_ok
    IN  [ret |-> rewrite,
         task |-> IF rewrite
                  THEN [task EXCEPT ![id].last_countdown_update = time]
                  ELSE task,
         files |-> IF rewrite
                   THEN [files EXCEPT ![path] =
                            [content EXCEPT !.countdown =
                                                GetCountdownDisplay(tk, time, 1)]]
                   ELSE files]

\* _scheduler_loop: the rest of `task.update_countdown_display()`, from the
\* search of the countdown text in the content read to the return.
LoopUpdateCountdown(write_ok) ==
    /\ lp.pc = "countdown"
    /\ LET id == Head(lp.tasks_to_update_countdown)
           r == UpdateCountdownDisplay(id, now, lp.content, write_ok)
       IN  /\ task' = r.task
           /\ files' = r.files
           /\ rewrites' = IF r.ret THEN [rewrites EXCEPT ![id] = Append(@, now)]
                           ELSE rewrites
    /\ lp' = [lp EXCEPT !.pc = "run", !.content = Absent,
                        !.tasks_to_update_countdown = Tail(@)]
    /\ UNCHANGED <<poolVars, now, next_id, tasks, lock, ex, ed, last_loop_exec,
                   last_success, envVars>>

\* _scheduler_loop: time.sleep(1) at the end of the round, while the time is
\* below the limit followed.
LoopSleepUntil(limit) ==
    /\ lp.pc = "run"
    /\ lp.tasks_to_run = <<>>
    /\ lp.tasks_to_update_countdown = <<>>
    /\ ex["loop"].pc = "none"
    /\ now < limit
    /\ now' = now + 1
    /\ lp' = LoopIdle
    /\ UNCHANGED <<poolVars, next_id, task, tasks, lock, files, ex, ed,
                   histVars, envVars>>

LoopSleep == LoopSleepUntil(MaxTime)

\* _scheduler_loop: time.sleep(1) once the horizon is reached; the loop goes
\* on polling, the time beyond the horizon is not followed.
LoopSleepAtHorizon ==
    /\ lp.pc = "run"
    /\ lp.tasks_to_run = <<>>
    /\ lp.tasks_to_update_countdown = <<>>
    /\ ex["loop"].pc = "none"
    /\ now = MaxTime
    /\ lp' = LoopIdle
    /\ UNCHANGED <<poolVars, now, next_id, task, tasks, lock, files, ex, ed,
                   histVars, envVars>>

\* Wall-clock time passing while the threads work.
Tick ==
    /\ now < MaxTime
    /\ now' = now + 1
    /\ UNCHANGED <<poolVars, next_id, task, tasks, lock, files, ex, ed, lp,
                   histVars, envVars>>

InitSched ==
    /\ now = StartTime
    /\ next_id = 1
    /\ task = [id \in TaskIds |-> NoTask]
    /\ tasks = {}
    /\ lock = "free"
    /\ files = [p \in TempPaths |-> Absent]
    /\ ex = [t \in Threads |-> NoExec]
    /\ ed = EdIdle
    /\ lp = LoopIdle
    /\ last_loop_exec = [task |-> 0, at |-> 0]
    /\ last_success = [id \in TaskIds |-> 0]
    /\ rewrites = [id \in TaskIds |-> <<>>]

\* No function is being applied.
NoCall == [fn |-> "none", done |-> TRUE]

\* Every config file is at its first revision.
InitDisk == disk = [cfg \in ConfigFiles |-> 1]

Init == InitPool /\ InitSched /\ call = NoCall /\ InitDisk

\* The user saves an edited config file: every part of it differs from the
\* earlier revisions.
EditConfigFile(cfg) ==
    /\ disk[cfg] <= MaxEdits
    /\ disk' = [disk EXCEPT ![cfg] = @ + 1]
    /\ UNCHANGED <<poolVars, now, next_id, task, tasks, lock, files, ex, ed, lp,
                   histVars, call>>

\* ---- get_remaining_time() and get_countdown_display() on given task fields

\* Times are counted in 1/Resolution second here, so that time.time() falls
\* between whole seconds.
Resolution == 2
FnIntervals == {0, 1, 2, 61, 3600, 3725}
FnCreation == StartTime * Resolution

CountdownArgs ==
    {a \in [is_running : BOOLEAN, interval : FnIntervals,
            creation_time : {FnCreation},
            last_run : {0, FnCreation + 1, FnCreation + 4},
            time : FnCreation..(FnCreation + 3 * Resolution)] :
        a.time >= a.last_run}

InitCountdownFn ==
    /\ InitPool
    /\ InitSched
    /\ InitDisk
    /\ \E a \in CountdownArgs :
          call = [fn |-> "get_countdown_display", done |-> FALSE, arg |-> a,
                  remaining |-> 0, display |-> ""]

\* remaining = task.get_remaining_time(); display = task.get_countdown_display()
CallGetCountdownDisplay ==
    /\ call.fn = "get_countdown_display"
    /\ ~call.done
    /\ call' = [call EXCEPT
                   !.done = TRUE,
                   !.remaining = GetRemainingTime(call.arg, call.arg.time,
                                                  Resolution),
                   !.display = GetCountdownDisplay(call.arg, call.arg.time,
                                                   Resolution)]
    /\ UNCHANGED <<poolVars, now, next_id, task, tasks, lock, files, ex, ed, lp,
                   histVars, disk>>

SpecCountdownFn == InitCountdownFn /\ [][CallGetCountdownDisplay]_vars

\* The steps of execute(), on the thread that called it.
Execute(t) ==
    \/ ExecuteGuard(t)
    \/ ExecuteStart(t)
    \/ \E outcome \in {"ok", "get_connection"} \cup FailSteps,
          write_ok \in BOOLEAN : ExecuteFinish(t, outcome, write_ok)

\* The editor thread's commands that execute a task of a set of config files.
Commands(cfgs) ==
    \/ \E cfg \in cfgs : StartDashboardNew(cfg)
    \/ \E id \in TaskIds : RestartTask(id)
    \/ \E cfg \in cfgs : RestartTaskByConfigFile(cfg)
    \/ EditorReturn
    \/ Execute("editor")

\* The background loop.
Loop ==
    \/ LoopSnapshot
    \/ LoopExecute
    \/ LoopExecuted
    \/ LoopReadCountdown
    \/ \E write_ok \in BOOLEAN : LoopUpdateCountdown(write_ok)
    \/ LoopSleep
    \/ Execute("loop")

\* One dashboard, started, restarted and refreshed: the editor thread and the
\* background loop, up to the horizon.
Next ==
    \/ Commands({"/a/x.yaml"})
    \/ Loop
    \/ Tick

Spec == Init /\ [][Next]_vars

\* Several dashboards started and stopped from the editor thread, the
\* background loop idle.
NextEditor ==
    \/ \E cfg \in ConfigFiles : StartDashboardExisting(cfg)
    \/ \E cfg \in ConfigFiles : StartDashboardNew(cfg)
    \/ \E cfg \in ConfigFiles : StopDashboard(cfg)
    \/ RemoveTaskDelete
    \/ EditorReturn
    \/ Execute("editor")

SpecEditor == Init /\ [][NextEditor]_vars

\* One dashboard started and stopped while the background loop runs.
NextStop ==
    \/ StartDashboardNew("/a/x.yaml")
    \/ StopDashboard("/a/x.yaml")
    \/ \E id \in TaskIds : RemoveTaskUnknown(id)
    \/ RemoveTaskDelete
    \/ EditorReturn
    \/ Execute("editor")
    \/ Loop

SpecStop == Init /\ [][NextStop]_vars

\* One dashboard whose template variables are updated and reset from the
\* editor thread.
NextVars ==
    \/ StartDashboardNew("/a/x.yaml")
    \/ \E id \in TaskIds, name \in ArgNames, raw \in RawValues :
          UpdateVariable(id, name, raw)
    \/ \E name \in ArgNames, raw \in RawValues :
          UpdateVariableByConfigFile("/a/x.yaml", name, raw)
    \/ \E id \in TaskIds : ResetVariables(id)
    \/ EditorReturn
    \/ Execute("editor")

SpecVars == Init /\ [][NextVars]_vars

\* One dashboard, started by the editor, and a loop that polls for ever while
\* the time passes.  The loop thread is a daemon
\* thread the interpreter keeps scheduling, so each of its steps is taken when
\* it stays possible; an execute() call terminates, on either thread; an
\* editor command returns once its execute() has.
NextLive ==
    \/ StartDashboardNew("/a/x.yaml")
    \/ EditorReturn
    \/ Execute("editor")
    \/ Loop
    \/ LoopSleepAtHorizon
    \/ Tick

Fairness ==
    /\ WF_vars(LoopSnapshot)
    /\ WF_vars(LoopExecute)
    /\ WF_vars(LoopExecuted)
    /\ WF_vars(LoopReadCountdown)
    /\ WF_vars(\E write_ok \in BOOLEAN : LoopUpdateCountdown(write_ok))
    /\ WF_vars(LoopSleep \/ LoopSleepAtHorizon)
    /\ WF_vars(Execute("loop"))
    /\ WF_vars(Execute("editor"))
    /\ WF_vars(EditorReturn)

SpecLive == Init /\ [][NextLive]_vars /\ Fairness

\* The pool on its own, called directly.
SpecPool == Init /\ [][NextPool]_vars

\* One dashboard with a long refresh interval and the background loop, over
\* the long horizon: the time passes with the loop's rounds.
NextCountdown ==
    \/ StartDashboardNew("/a/y.yaml")
    \/ EditorReturn
    \/ Execute("editor")
    \/ LoopSnapshot
    \/ LoopExecute
    \/ LoopExecuted
    \/ LoopReadCountdown
    \/ \E write_ok \in BOOLEAN : LoopUpdateCountdown(write_ok)
    \/ LoopSleepUntil(StartTime + LongHorizon)
    \/ Execute("loop")

SpecCountdown == Init /\ [][NextCountdown]_vars

\* One dashboard whose config file is edited while it is open, refreshed by
\* the editor's commands and by the background loop.
NextReload ==
    \/ StartDashboardNew("/a/x.yaml")
    \/ EditConfigFile("/a/x.yaml")
    \/ RestartTaskByConfigFile("/a/x.yaml")
    \/ EditorReturn
    \/ Execute("editor")
    \/ Loop

SpecReload == Init /\ [][NextReload]_vars

\* ---- SQLTemplateEngine.render_template on a rendered text (template.py)

\* A text is the sequence of its characters.
LowerChars == <<"a", "b", "c", "d", "e", "f", "g", "h", "i", "j", "k", "l", "m",
               "n", "o", "p", "q", "r", "s", "t", "u", "v", "w", "x", "y", "z">>
UpperChars == <<"A", "B", "C", "D", "E", "F", "G", "H", "I", "J", "K", "L", "M",
               "N", "O", "P", "Q", "R", "S", "T", "U", "V", "W", "X", "Y", "Z">>

\* str.upper(), character by character
UpperChar(c) ==
    IF \E i \in 1..Len(LowerChars) : LowerChars[i] = c
    THEN UpperChars[CHOOSE i \in 1..Len(LowerChars) : LowerChars[i] = c]
    ELSE c
Upper(s) == [i \in 1..Len(s) |-> UpperChar(s[i])]

\* \s and \w of the regular expressions
IsSpace(c) == c \in {" ", "\t", "\n"}
IsWordChar(c) ==
    \/ \E i \in 1..Len(LowerChars) : c = LowerChars[i] \/ c = UpperChars[i]
    \/ c \in {"0", "1", "2", "3", "4", "5", "6", "7", "8", "9"}
    \/ c = "_"

\* str.strip()
RECURSIVE LStrip(_)
LStrip(s) == IF s # <<>> /\ IsSpace(Head(s)) THEN LStrip(Tail(s)) ELSE s
RECURSIVE RStrip(_)
RStrip(s) ==
    IF s # <<>> /\ IsSpace(s[Len(s)]) THEN RStrip(SubSeq(s, 1, Len(s) - 1))
    ELSE s
Strip(s) == RStrip(LStrip(s))

\* re.sub(r'\s+', ' ', s)
RECURSIVE CollapseSpaces(_)
CollapseSpaces(s) ==
    IF s = <<>> THEN <<>>
    ELSE IF IsSpace(Head(s)) THEN <<" ">> \o CollapseSpaces(LStrip(s))
    ELSE <<Head(s)>> \o CollapseSpaces(Tail(s))

\* s.split(sep), the pieces in order
RECURSIVE Split(_, _)
Split(s, sep) ==
    IF \E i \in 1..Len(s) : s[i] = sep
    THEN LET i == CHOOSE k \in 1..Len(s) :
                      s[k] = sep /\ \A j \in 1..(k - 1) : s[j] # sep
         IN  <<SubSeq(s, 1, i - 1)>> \o Split(SubSeq(s, i + 1, Len(s)), sep)
    ELSE <<s>>

\* sep.join(parts)
RECURSIVE Join(_, _)
Join(parts, sep) ==
    IF parts = <<>> THEN <<>>
    ELSE IF Len(parts) = 1 THEN parts[1]
    ELSE parts[1] \o <<sep>> \o Join(Tail(parts), sep)

\* [line.strip() for line in lines if line.strip()]
RECURSIVE StrippedLines(_)
StrippedLines(lines) ==
    IF lines = <<>> THEN <<>>
    ELSE (IF Strip(Head(lines)) # <<>> THEN <<Strip(Head(lines))>> ELSE <<>>)
         \o StrippedLines(Tail(lines))

\* _clean_sql(sql)
CleanSql(sql) ==
    Join(StrippedLines(Split(CollapseSpaces(Strip(sql)), "\n")), "\n")

\* needle in hay
Contains(needle, hay) ==
    \E i \in 0..(Len(hay) - Len(needle)) :
        SubSeq(hay, i + 1, i + Len(needle)) = needle

dangerous_keywords == <<
    <<"D", "R", "O", "P">>,
    <<"D", "E", "L", "E", "T", "E">>,
    <<"U", "P", "D", "A", "T", "E">>,
    <<"I", "N", "S", "E", "R", "T">>,
    <<"A", "L", "T", "E", "R">>,
    <<"C", "R", "E", "A", "T", "E">>,
    <<"T", "R", "U", "N", "C", "A", "T", "E">>,
    <<"E", "X", "E", "C">>,
    <<"E", "X", "E", "C", "U", "T", "E">>,
    <<"G", "R", "A", "N", "T">>,
    <<"R", "E", "V", "O", "K", "E">>>>

\* f' {keyword} ' in f' {sql_upper} '
KeywordFoundAnywhere(keyword, sql_upper) == Contains(keyword, sql_upper)
KeywordFound(keyword, sql_upper) ==
    Contains(<<" ">> \o keyword \o <<" ">>, <<" ">> \o sql_upper \o <<" ">>)

\* re.search(r';\s*\w', sql, re.IGNORECASE | re.DOTALL)
InjectionPattern(sql) ==
    \E i \in 1..Len(sql), j \in 1..Len(sql) :
        /\ i < j
        /\ sql[i] = ";"
        /\ IsWordChar(sql[j])
        /\ \A k \in (i + 1)..(j - 1) : IsSpace(sql[k])

\* _validate_sql_safety(sql): TRUE when it returns, FALSE when it raises
\* ValueError.
ValidateSqlSafety(sql) ==
    /\ \A n \in 1..Len(dangerous_keywords) :
           ~KeywordFound(dangerous_keywords[n], Upper(sql))
    /\ ~InjectionPattern(sql)

\* render_template, from the text template.render() produced: the text
\* returned, or the ValueError raised.
RenderTemplate(rendered_sql) ==
    LET sql == CleanSql(rendered_sql)
    IN  IF ValidateSqlSafety(sql) THEN [raised |-> FALSE, sql |-> sql]
        ELSE [raised |-> TRUE, sql |-> <<>>]

\* The rendered texts tried: up to MaxPieces of these pieces in a row.
MaxPieces == 4
Pieces == {<<"x">>, <<" ">>, <<"\n">>, <<";">>, <<"(">>,
           <<"d", "r", "o", "p">>,
           <<"U", "p", "d", "a", "t", "e">>,
           <<"u", "p", "d", "a", "t", "e", "d", "_", "a", "t">>}

RECURSIVE Texts(_)
Texts(n) ==
    IF n = 0 THEN {<<>>}
    ELSE LET shorter == Texts(n - 1)
         IN  shorter \cup {t \o p : t \in shorter, p \in Pieces}

InitRenderFn ==
    /\ InitPool
    /\ InitSched
    /\ InitDisk
    /\ \E t \in Texts(MaxPieces) :
          call = [fn |-> "render_template", done |-> FALSE, arg |-> t,
                  raised |-> FALSE, sql |-> <<>>]

\* rendered_sql = engine.render_template(template_str, context)
CallRenderTemplate ==
    /\ call.fn = "render_template"
    /\ ~call.done
    /\ call' = [call EXCEPT !.done = TRUE,
                            !.raised = RenderTemplate(call.arg).raised,
                            !.sql = RenderTemplate(call.arg).sql]
    /\ UNCHANGED <<poolVars, now, next_id, task, tasks, lock, files, ex, ed, lp,
                   histVars, disk>>

SpecRenderFn == InitRenderFn /\ [][CallRenderTemplate]_vars

\* ---- ParameterManager.validate_and_prepare_context (template.py)

\* Python values: None is NoValue; a key that a dict does not have is Missing.
Missing == [kind |-> "missing", text |-> ""]
PyValues == {[kind |-> "str", text |-> "7"], [kind |-> "str", text |-> "yes"],
             [kind |-> "int", text |-> "7"], [kind |-> "bool", text |-> "True"]}
ParamTypes == {"string", "number", "boolean"}

\* _validate_parameter_type(name, value, expected_type): the converted value,
\* or the ValueError raised.
ValidateParameterType(value, expected_type) ==
    IF expected_type = "string"
    THEN [raised |-> FALSE, value |-> [kind |-> "str", text |-> value.text]]
    ELSE IF expected_type = "number"
    THEN IF value.kind \in {"int", "bool"}
         THEN [raised |-> FALSE, value |-> value]
         ELSE IF value.text \in IntStrings
         THEN [raised |-> FALSE, value |-> [kind |-> "int", text |-> value.text]]
         ELSE [raised |-> TRUE, value |-> NoValue]
    ELSE IF value.kind = "bool"
    THEN [raised |-> FALSE, value |-> value]
    ELSE IF value.kind = "str" /\ value.text \in {"true", "1", "yes", "on"}
    THEN [raised |-> FALSE, value |-> [kind |-> "bool", text |-> "True"]]
    ELSE IF value.kind = "str" /\ value.text \in {"false", "0", "no", "off"}
    THEN [raised |-> FALSE, value |-> [kind |-> "bool", text |-> "False"]]
    ELSE [raised |-> TRUE, value |-> NoValue]

\* args.get(param_name)
DictGet(args, name) == IF args[name] = Missing THEN NoValue ELSE args[name]

\* validate_and_prepare_context(args) with the one parameter "n" defined as
\* param_def: the context returned, or the ValueError raised.
ValidateAndPrepareContext(param_def, args) ==
    LET supplied == DictGet(args, "n")
        value == IF supplied = NoValue THEN param_def.default ELSE supplied
        v == ValidateParameterType(value, param_def.type)
    IN  IF supplied = NoValue /\ param_def.required
        THEN [raised |-> "missing_required", context |-> <<>>]
        ELSE IF value # NoValue /\ v.raised
        THEN [raised |-> "type", context |-> <<>>]
        ELSE [raised |-> "none",
              context |-> [a \in {"n", "zz"} |->
                              IF a = "zz" THEN args["zz"]
                              ELSE IF value # NoValue THEN v.value
                              ELSE NoValue]]

InitContextFn ==
    /\ InitPool
    /\ InitSched
    /\ InitDisk
    /\ \E d \in [type : ParamTypes, default : PyValues \cup {NoValue},
                  required : BOOLEAN],
          n \in PyValues \cup {NoValue, Missing},
          zz \in {Missing, [kind |-> "str", text |-> "7"]} :
          call = [fn |-> "validate_and_prepare_context", done |-> FALSE,
                  param_def |-> d, args |-> [a \in {"n", "zz"} |->
                                                IF a = "n" THEN n ELSE zz],
                  raised |-> "none", context |-> <<>>]

\* context = parameter_manager.validate_and_prepare_context(runtime_args)
CallValidateAndPrepareContext ==
    /\ call.fn = "validate_and_prepare_context"
    /\ ~call.done
    /\ LET r == ValidateAndPrepareContext(call.param_def, call.args)
       IN  call' = [call EXCEPT !.done = TRUE, !.raised = r.raised,
                                !.context = r.context]
    /\ UNCHANGED <<poolVars, now, next_id, task, tasks, lock, files, ex, ed, lp,
                   histVars, disk>>

SpecContextFn == InitContextFn /\ [][CallValidateAndPrepareContext]_vars

\* ---- BoxplotChart.render: the quartiles of one category (charts/boxplot.py)

\* values.sort()
SortValuesKeepsOrder(values) == values
SortValues(values) == SortSeq(values, LAMBDA a, b : a < b)

\* q1, q2, q3 of the values of a category; Python indexes from 0.
Quartiles(values) ==
    LET sorted == SortValues(values)
        n == Len(sorted)
        q1_idx == n \div 4
        q2_idx == n \div 2
        q3_idx == (3 * n) \div 4
    IN  [q1 |-> IF q1_idx < n THEN sorted[q1_idx + 1] ELSE sorted[1],
         q2 |-> IF q2_idx < n THEN sorted[q2_idx + 1] ELSE sorted[1],
         q3 |-> IF q3_idx < n THEN sorted[q3_idx + 1] ELSE sorted[n]]

\* The value lists tried: every list of 1..MaxValues values out of 0..3, and
\* the values 1..8 in descending order.
MaxValues == 4
InitBoxplotFn ==
    /\ InitPool
    /\ InitSched
    /\ InitDisk
    /\ \E v \in UNION {[1..n -> 0..3] : n \in 1..MaxValues}
                \cup {[i \in 1..8 |-> 9 - i]} :
          call = [fn |-> "boxplot", done |-> FALSE, arg |-> v,
                  q1 |-> 0, q2 |-> 0, q3 |-> 0]

\* box_stats[cat] of BoxplotChart.render
CallBoxplot ==
    /\ call.fn = "boxplot"
    /\ ~call.done
    /\ LET r == Quartiles(call.arg)
       IN  call' = [call EXCEPT !.done = TRUE, !.q1 = r.q1, !.q2 = r.q2,
                                !.q3 = r.q3]
    /\ UNCHANGED <<poolVars, now, next_id, task, tasks, lock, files, ex, ed, lp,
                   histVars, disk>>

SpecBoxplotFn == InitBoxplotFn /\ [][CallBoxplot]_vars

\* ---- ASCIIChartHelper.get_bar_char (charts/base.py)

\* CHART_CHARS['bar']['partial']: the seven glyphs of one to seven eighths;
\* the full block is written "#" and the empty cell " ".
PartialChars == <<"1/8", "2/8", "3/8", "4/8", "5/8", "6/8", "7/8">>

\* get_bar_char(value, max_value, width), the characters of the string
\* returned.  filled_width is the fraction value * width / max_value; int()
\* drops the fractional part towards 0; a string times a negative number is
\* the empty string.
GetBarChar(value, max_value, width) ==
    IF max_value = 0 THEN [i \in 1..width |-> " "]
    ELSE LET num == IF max_value < 0 THEN -(value * width) ELSE value * width
             den == IF max_value < 0 THEN -max_value ELSE max_value
             full_blocks == IF num >= 0 THEN num \div den
                            ELSE -((-num) \div den)
             partial_num == num - full_blocks * den
             partial_index == (partial_num * Len(PartialChars)) \div den
             bar == [i \in 1..full_blocks |-> "#"]
             result == IF /\ partial_num > 0
                          /\ full_blocks < width
                          /\ partial_index < Len(PartialChars)
                       THEN Append(bar, PartialChars[partial_index + 1])
                       ELSE bar
             remaining == width - Len(result)
         IN  result \o [i \in 1..remaining |-> " "]

\* The calls tried: values and maxima of both signs, widths 0..MaxWidth.
MaxWidth == 4
InitBarFn ==
    /\ InitPool
    /\ InitSched
    /\ InitDisk
    /\ \E value \in -4..6, max_value \in -2..4, width \in 0..MaxWidth :
          call = [fn |-> "get_bar_char", done |-> FALSE,
                  arg |-> [value |-> value, max_value |-> max_value,
                           width |-> width],
                  result |-> <<>>]

\* bar_chars = ASCIIChartHelper.get_bar_char(value, max_value, bar_width)
CallGetBarChar ==
    /\ call.fn = "get_bar_char"
    /\ ~call.done
    /\ call' = [call EXCEPT !.done = TRUE,
                            !.result = GetBarChar(call.arg.value,
                                                  call.arg.max_value,
                                                  call.arg.width)]
    /\ UNCHANGED <<poolVars, now, next_id, task, tasks, lock, files, ex, ed, lp,
                   histVars, disk>>

SpecBarFn == InitBarFn /\ [][CallGetBarChar]_vars

\* ---- HeatmapChart.render: the intensity of the cells (charts/heatmap.py)

\* get_intensity_char(value) with the min_val and max_val of render: the
\* position in intensity_chars of the character returned, counted from 0; a
\* negative index counts from the end of the list; -1 stands for the
\* IndexError of an index outside the list.
IntensityChar(value, min_val, max_val) ==
    IF max_val = min_val THEN 2
    ELSE LET num == (value - min_val) * 4
             den == max_val - min_val
             char_index == IF num >= 0 THEN num \div den
                           ELSE -((-num) \div den)
         IN  IF char_index \in 0..4 THEN char_index
             ELSE IF char_index \in (-5)..(-1) THEN char_index + 5
             ELSE -1

\* render: the cells of the grid, each with the value of its row of data or
\* without one; min_val and max_val are taken over the values given, and
\* max_val is moved to min_val + 1 when they are equal.
HeatmapIntensities(cells) ==
    LET all_values == {cells[c].val : c \in {k \in DOMAIN cells : cells[k].present}}
        min_val == CHOOSE v \in all_values : \A w \in all_values : v <= w
        highest == CHOOSE v \in all_values : \A w \in all_values : v >= w
        max_val == IF highest = min_val THEN min_val + 1 ELSE highest
    IN  [c \in DOMAIN cells |->
            IntensityChar(IF cells[c].present THEN cells[c].val ELSE 0,
                          min_val, max_val)]

\* The grids tried: MaxCells cells, each without a value or with one of -2..3,
\* at least one with a value.
MaxCells == 3
InitHeatmapFn ==
    /\ InitPool
    /\ InitSched
    /\ InitDisk
    /\ \E cells \in [1..MaxCells ->
                        {[present |-> FALSE, val |-> 0]}
                        \cup [present : {TRUE}, val : -2..3]] :
          /\ \E c \in 1..MaxCells : cells[c].present
          /\ call = [fn |-> "heatmap", done |-> FALSE, arg |-> cells,
                     result |-> <<>>]

\* the data rows of HeatmapChart.render
CallHeatmap ==
    /\ call.fn = "heatmap"
    /\ ~call.done
    /\ call' = [call EXCEPT !.done = TRUE,
                            !.result = HeatmapIntensities(call.arg)]
    /\ UNCHANGED <<poolVars, now, next_id, task, tasks, lock, files, ex, ed, lp,
                   histVars, disk>>

SpecHeatmapFn == InitHeatmapFn /\ [][CallHeatmap]_vars

\* ---- the query DashboardTask.execute() hands to the backend (config.py)

\* ConfigManager.load_config: a query that is a mapping with args gets a new
\* template processor, whose apply_defaults() is called next; the class
\* SQLTemplateProcessor defines no such method, so the call raises
\* AttributeError and load_config does not return. form is "plain" (the
\* query is a string), "sql" (a mapping with sql only) or "template" (a
\* mapping with sql and args).
LoadConfig(form) ==
    [raised |-> form = "template", template_processor |-> form = "template"]

\* ConfigManager.get_query: the query is rendered, and with that validated,
\* only when a template processor exists; otherwise it is returned as
\* written in the config file.
GetQuery(template_processor, text) ==
    IF template_processor /\ text # <<>>
    THEN RenderTemplate(text)
    ELSE [raised |-> FALSE, sql |-> text]

\* The queries tried: the texts of up to MaxQueryPieces pieces, in each of the
\* forms.
MaxQueryPieces == 2
InitQueryFn ==
    /\ InitPool
    /\ InitSched
    /\ InitDisk
    /\ \E form \in {"plain", "sql", "template"}, t \in Texts(MaxQueryPieces) :
          call = [fn |-> "execute_query", done |-> FALSE,
                  arg |-> [form |-> form, text |-> t],
                  executed |-> FALSE, query |-> <<>>]

\* execute(): self.config_manager.load_config(self.config_file);
\* query = self.config_manager.get_query(); an empty query raises;
\* data = connection.execute_query(query)
CallExecuteQuery ==
    /\ call.fn = "execute_query"
    /\ ~call.done
    /\ LET cfg == LoadConfig(call.arg.form)
           q == GetQuery(cfg.template_processor, call.arg.text)
           executed == ~cfg.raised /\ ~q.raised /\ q.sql # <<>>
       IN  call' = [call EXCEPT !.done = TRUE,
                                !.executed = executed,
                                !.query = IF executed THEN q.sql ELSE <<>>]
    /\ UNCHANGED <<poolVars, now, next_id, task, tasks, lock, files, ex, ed, lp,
                   histVars, disk>>

SpecQueryFn == InitQueryFn /\ [][CallExecuteQuery]_vars

\* =========================================================================
\* Claims
\* =========================================================================

\* C2: in every reachable state of the connection pool the active-connection
\* count of a URL is at most max_connections (5).
C2_ActiveAtMostMax ==
    \A u \in DbUrls : active_connections[u] <= max_connections

\* C3: with 5 connections of a URL active and none idle, get_connection fails
\* at once with the pool-exhausted error and leaves the pool as it was; a
\* return_connection then brings the count to 4, and a get_connection that
\* finds the count under 5 and nothing idle is never refused: it obtains a new
\* connection whenever the factory connects.
C3_ExhaustedThenRetry ==
    /\ [][\A u \in DbUrls :
            (/\ active_connections[u] = max_connections
             /\ NotConnected(pools[u]) = {}
             /\ \E nf \in 0..MaxPool, ok \in BOOLEAN : GetConnection(u, nf, ok))
            => (/\ pool_ret' = "exhausted"
                /\ UNCHANGED <<pools, active_connections, checked_out>>)]_vars
    /\ [][\A u \in DbUrls :
            (active_connections[u] = max_connections /\ ReturnConnection(u))
            => active_connections'[u] = max_connections - 1]_vars
    /\ [][\A u \in DbUrls, ok \in BOOLEAN :
            (/\ active_connections[u] = max_connections - 1
             /\ NotConnected(pools[u]) = {}
             /\ GetConnection(u, 0, ok))
            => (/\ pool_ret' = (IF ok THEN "created" ELSE "failed")
                /\ ok => active_connections'[u] = max_connections)]_vars

C3_Witness ==
    \E u \in DbUrls :
        /\ pool_ret = "exhausted"
        /\ active_connections[u] = max_connections
        /\ checked_out[u] = max_connections
        /\ NotConnected(pools[u]) = {}

\* C1: the task table never holds two tasks with the same config_file:
\* start_dashboard on a path that has a task reuses it and adds none.
C1_OneTaskPerConfigFile ==
    /\ [](\A i \in tasks, j \in tasks :
             task[i].config_file = task[j].config_file => i = j)
    /\ [][\A cfg \in ConfigFiles :
             (/\ TasksOf(cfg) # {}
              /\ StartDashboardExisting(cfg) \/ StartDashboardNew(cfg))
             => (tasks' = tasks /\ ed'.res = "reused")]_vars

C1_Witness ==
    /\ ed.res = "reused"
    /\ Cardinality(tasks) = MaxTasks
    /\ \E cfg \in ConfigFiles : Cardinality(TasksOf(cfg)) = 1

\* C4: an execute() that passed the guard ends with is_running false, and it
\* returns the connection it acquired, once, whichever step raised; with no
\* connection it leaves the pool alone.
C4_FinallyReleases ==
    [][\A t \in Threads, outcome \in {"ok", "get_connection"} \cup FailSteps,
          write_ok \in BOOLEAN :
          ExecuteFinish(t, outcome, write_ok) =>
              LET id == ex[t].task
                  u == DbUrlOf(task[id].config_file)
              IN  /\ ~task'[id].is_running
                  /\ ex[t].conn =>
                        /\ checked_out'[u] = checked_out[u] - 1
                        /\ active_connections'[u] = active_connections[u] - 1
                  /\ ~ex[t].conn => UNCHANGED poolVars]_vars

C4_Witness ==
    \E t \in Threads :
        /\ ex[t].pc = "done"
        /\ ex[t].step = "body"
        /\ ex[t].conn
        /\ ex[t].ret # "true"
        /\ ~task[ex[t].task].is_running
        /\ \A u \in DbUrls : checked_out[u] = 0 /\ active_connections[u] = 0

\* C5: execute() never lets an exception escape, and when it ends after the
\* guard the temp file holds the chart of this run (it returned true) or the
\* error text of this run (it returned false).
C5_NoEscapeFileWritten ==
    [][\A t \in Threads, outcome \in {"ok", "get_connection"} \cup FailSteps,
          write_ok \in BOOLEAN :
          ExecuteFinish(t, outcome, write_ok) =>
              /\ ex'[t].ret # "raised"
              /\ files'[TempFilePath(task[ex[t].task])].kind =
                     (IF ex'[t].ret = "true" THEN "chart" ELSE "error")
              /\ files'[TempFilePath(task[ex[t].task])].task = ex[t].task]_vars

\* C6: a successful execute() sets error_count to 0, clears last_error and
\* sets last_run to the current time; a failed one adds 1 to error_count, sets
\* last_error and leaves last_run as it was.
C6_StatusUpdate ==
    [][\A t \in Threads, outcome \in {"ok", "get_connection"} \cup FailSteps,
          write_ok \in BOOLEAN :
          ExecuteFinish(t, outcome, write_ok) =>
              LET id == ex[t].task
              IN  IF ex'[t].ret = "true"
                  THEN /\ task'[id].error_count = 0
                       /\ task'[id].last_error = "none"
                       /\ task'[id].last_run = now
                  ELSE /\ task'[id].error_count = task[id].error_count + 1
                       /\ task'[id].last_error # "none"
                       /\ task'[id].last_run = task[id].last_run]_vars

C6_Witness ==
    \E t \in Threads :
        /\ ex[t].pc = "done"
        /\ ex[t].step = "body"
        /\ ex[t].ret = "false"
        /\ task[ex[t].task].error_count = MaxErrors
        /\ task[ex[t].task].last_run # 0
        /\ task[ex[t].task].last_run < now

\* C7: the loop does not execute a task again before interval_seconds have
\* passed since the end of its previous loop-triggered execution, whether that
\* one succeeded or failed.
C7_LoopRunsIntervalApart ==
    (/\ ex["loop"].pc \in {"start", "run"}
     /\ last_loop_exec.task = ex["loop"].task)
    => now - last_loop_exec.at >= task[ex["loop"].task].interval

\* C8: for a task with a positive interval, should_run() is true exactly when
\* interval_seconds have passed since the end of its latest successful run,
\* or since its creation while it has none; it is false at creation.
C8_ShouldRunSinceSuccessOrCreation ==
    \A id \in tasks :
        LET tk == task[id]
            since == IF last_success[id] = 0 THEN tk.creation_time
                     ELSE last_success[id]
        IN  tk.interval > 0 =>
                (ShouldRun(tk, now) <=> (now - since >= tk.interval))

C8_Witness ==
    \E id \in tasks :
        /\ last_success[id] = 0
        /\ task[id].error_count > 0
        /\ task[id].interval > 0
        /\ now = task[id].creation_time + task[id].interval
        /\ ShouldRun(task[id], now)

\* C10: an execute() that finds is_running true returns false and changes
\* neither the task's fields, nor the temp files, nor the pool.
C10_GuardChangesNothing ==
    [][\A t \in Threads :
          (/\ ex[t].pc = "guard"
           /\ task[ex[t].task].is_running
           /\ ex'[t] # ex[t])
          => (/\ ex'[t].pc = "done"
              /\ ex'[t].ret = "false"
              /\ UNCHANGED <<task, files, poolVars>>)]_vars

C10_Witness ==
    \E t \in Threads :
        /\ ex[t].pc = "done"
        /\ ex[t].step = "guard"
        /\ ex[t].ret = "false"
        /\ task[ex[t].task].is_running

\* The loop has called execute() of the task.
LoopCalls(id) == ex["loop"].pc = "guard" /\ ex["loop"].task = id

\* No execute() of the task can run any more within the bounds of the model:
\* the database accepts no further connection and the error count is at its
\* cap.
RunsSpent(id) ==
    /\ Len(pools[DbUrlOf(task[id].config_file)]) >= MaxRuns
    /\ task[id].error_count >= MaxErrors

\* C9: whenever interval_seconds have passed since last_run (since the
\* creation of a task that never ran) for a registered task, the background
\* loop eventually calls its execute(), unless an execute() called from the
\* editor thread has stamped last_run first, so that the interval has not
\* passed any more.
C9_DueTaskExecutedByLoop ==
    \A id \in TaskIds :
        (id \in tasks /\ ShouldRun(task[id], now))
            ~> (\/ LoopCalls(id)
                \/ ~ShouldRun(task[id], now)
                \/ RunsSpent(id))

C9_Witness ==
    \E id \in tasks :
        /\ LoopCalls(id)
        /\ ShouldRun(task[id], now)
        /\ task[id].last_run # 0
        /\ ~RunsSpent(id)

\* C11: the is_running check and the assignment that follows it are two steps:
\* while a thread has passed the check of a task and no thread is in the body,
\* is_running is still false, so another thread's check of the same task
\* passes too, and both run the body at the same time.
C11_CheckThenSetNotAtomic ==
    \A t \in Threads :
        (/\ ex[t].pc = "start"
         /\ \A o \in Threads : ~(ex[o].pc = "run" /\ ex[o].task = ex[t].task))
        => ~task[ex[t].task].is_running

C11_Witness ==
    /\ ex["editor"].pc = "run"
    /\ ex["loop"].pc = "run"
    /\ ex["editor"].task = ex["loop"].task
    /\ ed.op = "restart_task"
    /\ lock = "editor"

\* C12: apart from the first execution inside add_task, the editor thread is
\* never inside execute() while it holds the scheduler's lock.
C12_ExecuteOutsideLock ==
    (ex["editor"].pc \in {"guard", "start", "run"} /\ lock = "editor")
    => ed.op = "add_task"

\* C13: when remove_task returns true, the task is in the table neither under
\* its id nor under its config_file (so list_tasks does not list it) and its
\* temp file does not exist; remove_task of an unknown id returns false and
\* changes neither the table nor a file.
C13_RemoveTaskPostcondition ==
    [][/\ RemoveTaskDelete =>
              /\ ed'.res = "removed"
              /\ ed.task \notin tasks'
              /\ \A j \in tasks' : task'[j].config_file # task[ed.task].config_file
              /\ files'[TempFilePath(task[ed.task])] = Absent
       /\ \A id \in TaskIds :
              RemoveTaskUnknown(id) =>
                  (ed'.res = "not_found" /\ UNCHANGED <<tasks, files>>)]_vars

\* The values update_variable is expected to refuse: for a number, text that
\* is not numeric; for a boolean, text outside true/1/yes/on/false/0/no/off.
NotCoercible(name, raw) ==
    \/ VarType(name) = "number" /\ raw \notin IntStrings
    \/ /\ VarType(name) = "boolean"
       /\ raw \notin {"true", "1", "yes", "on", "false", "0", "no", "off"}

\* C14: update_variable with a value that cannot be coerced to the declared
\* type returns false, leaves every field of the task as it was and starts no
\* execution.
C14_InvalidValueChangesNothing ==
    [][\A id \in TaskIds, name \in VarNames, raw \in RawValues :
          (NotCoercible(name, raw) /\ UpdateVariable(id, name, raw))
          => (/\ ed'.res = "false"
              /\ task' = task
              /\ ex' = ex)]_vars

\* C15: update_countdown_display() only edits text: it acquires no connection
\* and starts no execution, leaves last_run, error_count, last_error and
\* is_running of every task as they are, writes the temp file only when the
\* file exists and holds the "Next refresh: ..." text, and two rewrites of a
\* task's file by it are at least countdown_period seconds apart.
C15_CountdownTextOnly ==
    /\ [](\A id \in TaskIds : \A i, j \in 1..Len(rewrites[id]) :
             i < j => rewrites[id][j] - rewrites[id][i] >= countdown_period)
    /\ [][\A write_ok \in BOOLEAN :
             LoopUpdateCountdown(write_ok) =>
                 LET id == Head(lp.tasks_to_update_countdown)
                     content == files[TempFilePath(task[id])]
                 IN  /\ UNCHANGED <<poolVars, ex>>
                     /\ \A k \in TaskIds :
                            /\ task'[k].last_run = task[k].last_run
                            /\ task'[k].error_count = task[k].error_count
                            /\ task'[k].last_error = task[k].last_error
                            /\ task'[k].is_running = task[k].is_running
                     /\ (files' # files \/ rewrites' # rewrites) =>
                            (content.kind # "absent"
                             /\ HasCountdownPattern(content))]_vars

\* The file of a task was rewritten twice by update_countdown_display(), and
\* an error text without the countdown was left alone in between or after.
C15_Witness ==
    \E id \in TaskIds :
        /\ Len(rewrites[id]) >= 2
        /\ files[TempFilePath(task[id])].kind = "error"
        /\ task[id].last_countdown_update = rewrites[id][2]

\* C16: get_remaining_time() is 0 while the task is running and otherwise the
\* whole seconds of max(0, interval - elapsed), elapsed counted from last_run,
\* or from the creation time while last_run is 0; it lies in 0..interval;
\* get_countdown_display() is "Refreshing..." exactly when it is 0, MM:SS
\* below 3600 and HH:MM:SS from 3600 on.
C16_RemainingAndDisplay ==
    (call.fn = "get_countdown_display" /\ call.done) =>
        LET a == call.arg
            r == call.remaining
            elapsed == IF a.last_run = 0 THEN a.time - a.creation_time
                       ELSE a.time - a.last_run
            left == Max(0, a.interval * Resolution - elapsed)
        IN  /\ a.is_running => r = 0
            /\ ~a.is_running =>
                   (r * Resolution <= left /\ left < (r + 1) * Resolution)
            /\ r \in 0..a.interval
            /\ (call.display = "Refreshing...") <=> (r = 0)
            /\ (0 < r /\ r < 3600) =>
                   /\ Len(call.display) = 5
                   /\ call.display = Pad2(r \div 60) \o ":" \o Pad2(r % 60)
            /\ r >= 3600 =>
                   /\ Len(call.display) = 8
                   /\ call.display = Pad2(r \div 3600) \o ":"
                          \o Pad2((r % 3600) \div 60) \o ":" \o Pad2(r % 60)

\* The countdown of a task that last ran a second and a half ago, with more
\* than an hour left.
C16_Witness ==
    /\ call.fn = "get_countdown_display"
    /\ call.done
    /\ ~call.arg.is_running
    /\ call.arg.last_run # 0
    /\ (call.arg.time - call.arg.last_run) % Resolution # 0
    /\ call.remaining >= 3600
    /\ call.display = "01:02:03"

\* C17: a successful execute() uses the revision of the config file that is
\* on disk: the chart it writes is the result of the query of that revision,
\* rendered with the show section of that revision.
C17_ExecuteUsesDiskConfig ==
    [][\A t \in Threads, write_ok \in BOOLEAN :
          ExecuteFinish(t, "ok", write_ok) =>
              LET tk == task[ex[t].task]
              IN  /\ files'[TempFilePath(tk)].query = disk[tk.config_file]
                  /\ files'[TempFilePath(tk)].show = disk[tk.config_file]]_vars

\* C18: a returned connection stays open in the pool and is reused: when the
\* pool of a url holds an open connection and every connection obtained for
\* the url has been returned, get_connection hands out a pooled connection
\* and creates none.
C18_ReturnedConnectionReused ==
    [][\A u \in DbUrls, nfail \in 0..MaxPool :
          (/\ GetConnection(u, nfail, TRUE)
           /\ checked_out[u] = 0
           /\ \E k \in 1..Len(pools[u]) : pools[u][k])
          => (pool_ret' = "reused" /\ Len(pools'[u]) <= Len(pools[u]))]_vars

\* the words of a text between its single spaces
Tokens(sql) == Split(sql, " ")

\* C19: render_template returns the rendered text, its whitespace runs
\* collapsed to single spaces, if and only if none of the dangerous keywords
\* is one of its space-delimited words in any letter case and no ";" is
\* followed, after optional whitespace, by a word character; otherwise it
\* raises.  A keyword inside a longer identifier is accepted.
C19_RenderTemplateSafety ==
    (call.fn = "render_template" /\ call.done) =>
        LET text == CollapseSpaces(Strip(call.arg))
            words == Tokens(text)
            keyword == \E i \in 1..Len(words), n \in 1..Len(dangerous_keywords) :
                          Upper(words[i]) = dangerous_keywords[n]
            second == \E i \in 1..Len(call.arg) :
                          /\ call.arg[i] = ";"
                          /\ \E j \in (i + 1)..Len(call.arg) :
                                /\ IsWordChar(call.arg[j])
                                /\ \A k \in (i + 1)..(j - 1) :
                                       IsSpace(call.arg[k])
        IN  /\ ~call.raised <=> (~keyword /\ ~second)
            /\ ~call.raised => call.sql = text

\* A text with UPDATED_AT in it was returned, its line break turned into a
\* space.
C19_Witness ==
    /\ call.fn = "render_template"
    /\ call.done
    /\ ~call.raised
    /\ call.arg = <<"x", "\n">>
                      \o <<"u", "p", "d", "a", "t", "e", "d", "_", "a", "t">>
                      \o <<";">>
    /\ call.sql = <<"x", " ">>
                      \o <<"u", "p", "d", "a", "t", "e", "d", "_", "a", "t">>
                      \o <<";">>

\* C20: when no runtime value is supplied for a declared parameter,
\* validate_and_prepare_context uses the declared default if there is one,
\* required or not; it fails with the missing-required error only when the
\* parameter is required and has no default; it binds None when the parameter
\* is optional and has no default.
C20_DefaultForMissingValue ==
    (/\ call.fn = "validate_and_prepare_context"
     /\ call.done
     /\ call.args["n"] \in {Missing, NoValue}) =>
        LET d == call.param_def
        IN  /\ d.default # NoValue =>
                   /\ call.raised # "missing_required"
                   /\ call.raised = "none" =>
                          call.context["n"] =
                              ValidateParameterType(d.default, d.type).value
            /\ (call.raised = "missing_required")
                   <=> (d.required /\ d.default = NoValue)
            /\ (~d.required /\ d.default = NoValue) =>
                   (call.raised = "none" /\ call.context["n"] = NoValue)

\* the k-th smallest of the values, k counted from 0
Ranked(values, k) ==
    CHOOSE x \in {values[i] : i \in 1..Len(values)} :
        /\ Cardinality({i \in 1..Len(values) : values[i] < x}) <= k
        /\ Cardinality({i \in 1..Len(values) : values[i] <= x}) > k

\* C21: for a category with n >= 1 values, Q1, the median and Q3 are the
\* values at the positions n div 4, n div 2 and 3n div 4 of the ascending
\* order, so Q1 <= median <= Q3 and each is one of the values; for 1..8 they
\* are 3, 5 and 7.
C21_BoxplotQuartiles ==
    (call.fn = "boxplot" /\ call.done) =>
        LET v == call.arg
            n == Len(v)
        IN  /\ call.q1 = Ranked(v, n \div 4)
            /\ call.q2 = Ranked(v, n \div 2)
            /\ call.q3 = Ranked(v, (3 * n) \div 4)
            /\ call.q1 <= call.q2 /\ call.q2 <= call.q3
            /\ {call.q1, call.q2, call.q3} \subseteq {v[i] : i \in 1..n}
            /\ {v[i] : i \in 1..n} = 1..8 /\ n = 8 =>
                   (call.q1 = 3 /\ call.q2 = 5 /\ call.q3 = 7)

\* The quartiles of the values 1..8, given in descending order.
C21_Witness ==
    /\ call.fn = "boxplot"
    /\ call.done
    /\ call.arg = [i \in 1..8 |-> 9 - i]
    /\ call.q1 = 3 /\ call.q2 = 5 /\ call.q3 = 7

\* C22: for every value, max_value and width >= 0, get_bar_char returns
\* exactly width characters: full blocks, then at most one partial glyph,
\* then spaces; a value equal to a max_value other than 0 gives width full
\* blocks, a value of 0 or a max_value of 0 gives width spaces.
C22_BarHasWidth ==
    (call.fn = "get_bar_char" /\ call.done) =>
        LET a == call.arg
            r == call.result
            full == Cardinality({i \in 1..Len(r) : r[i] = "#"})
            partial == Cardinality({i \in 1..Len(r) : r[i] \notin {"#", " "}})
        IN  /\ Len(r) = a.width
            /\ partial <= 1
            /\ \A i \in 1..Len(r) :
                  /\ i <= full => r[i] = "#"
                  /\ i > full + partial => r[i] = " "
            /\ (a.value = a.max_value /\ a.max_value # 0) =>
                  (full = a.width /\ partial = 0)
            /\ (a.value = 0 \/ a.max_value = 0) =>
                  \A i \in 1..Len(r) : r[i] = " "

\* C23: every cell of the heatmap, a missing combination counting as 0, gets
\* an intensity index in 0..4, the linear position of its value between the
\* smallest and the largest value given; when all values given are equal
\* every cell gets index 2.
C23_HeatmapIntensity ==
    (call.fn = "heatmap" /\ call.done) =>
        LET cells == call.arg
            given == {cells[c].val : c \in {k \in DOMAIN cells : cells[k].present}}
            lo == CHOOSE v \in given : \A w \in given : v <= w
            hi == CHOOSE v \in given : \A w \in given : v >= w
        IN  \A c \in DOMAIN cells :
                LET value == IF cells[c].present THEN cells[c].val ELSE 0
                IN  /\ call.result[c] \in 0..4
                    /\ hi = lo => call.result[c] = 2
                    /\ (hi # lo /\ lo <= value /\ value <= hi) =>
                          call.result[c] = ((value - lo) * 4) \div (hi - lo)

\* C24: the active counter of a url equals the number of connections of the
\* url that were obtained with get_connection and not yet returned, whatever
\* get_connection, return_connection and close_all_connections calls were made.
C24_ActiveEqualsCheckedOut ==
    \A u \in DbUrls : active_connections[u] = checked_out[u]

\* C25: the list of connections the pool stores for a url never has more than
\* max_connections entries.
C25_PoolListAtMostMax ==
    \A u \in DbUrls : Len(pools[u]) <= max_connections

\* C26: once remove_task has returned, the removed task is not executed any
\* more and its temp file is not written any more: the loop starts no
\* execute() of a task that is not registered, no execute() of such a task
\* reaches its end, and no countdown refresh of such a task rewrites the file.
C26_RemovedTaskNeverRuns ==
    [][/\ LoopExecute => Head(lp.tasks_to_run) \in tasks
       /\ \A t \in Threads, outcome \in {"ok", "get_connection"} \cup FailSteps,
             write_ok \in BOOLEAN :
             ExecuteFinish(t, outcome, write_ok) => ex[t].task \in tasks
       /\ \A write_ok \in BOOLEAN :
             (LoopUpdateCountdown(write_ok) /\ files' # files)
                 => Head(lp.tasks_to_update_countdown) \in tasks]_vars

\* C27: no query that holds a mutating keyword as one of its
\* whitespace-delimited words, or a ";" followed after optional whitespace by
\* a word character, is passed to execute_query, whatever the form of the
\* query in the config file.
C27_NoMutatingQueryExecuted ==
    (call.fn = "execute_query" /\ call.done /\ call.executed) =>
        LET words == Tokens(CollapseSpaces(Strip(call.query)))
        IN  /\ \A i \in 1..Len(words), n \in 1..Len(dangerous_keywords) :
                  Upper(words[i]) # dangerous_keywords[n]
            /\ ~InjectionPattern(call.query)

\* C28: remove_task of one task leaves the temp file of every other
\* registered task as it was, whichever config files are registered.
C28_RemoveKeepsOtherTempFiles ==
    [][\A id \in tasks :
          RemoveTaskCleanup(id) =>
              \A other \in tasks \ {id} :
                  files'[TempFilePath(task[other])] = files[TempFilePath(task[other])]]_vars

\* C29: a countdown refresh that rewrites a temp file holding the chart of a
\* successful execution changes nothing but the countdown text of the file:
\* the content an earlier execution had written is never put back.
C29_RefreshKeepsNewerContent ==
    [][\A write_ok \in BOOLEAN :
          LoopUpdateCountdown(write_ok) =>
              \A p \in TempPaths :
                  files[p].kind = "chart" =>
                      [files'[p] EXCEPT !.countdown = "none"]
                          = [files[p] EXCEPT !.countdown = "none"]]_vars

\* C30: for every registered task and declared variable, current_value is the
\* runtime override when there is one and the declared default otherwise; an
\* update_variable for an undeclared name changes no task, and
\* reset_variables leaves runtime_variables empty.
C30_VariablesInfoFollowsRuntime ==
    /\ [](\A id \in tasks, v \in VarNames :
             task[id].variables_info[v] =
                 IF task[id].runtime_variables[v] # NoValue
                 THEN task[id].runtime_variables[v]
                 ELSE VarDefault(v))
    /\ [][/\ \A id \in TaskIds, name \in ArgNames \ VarNames, raw \in RawValues :
                UpdateVariable(id, name, raw) => task' = task
          /\ \A id \in TaskIds :
                ResetVariables(id) =>
                    \A v \in VarNames : task'[id].runtime_variables[v] = NoValue]_vars

\* An update of n was accepted and a later update was refused: n shows its
\* override, b its declared default.
C30_Witness ==
    \E id \in tasks :
        /\ ed.res = "false"
        /\ task[id].last_error = "invalid value"
        /\ task[id].runtime_variables["n"] = [kind |-> "int", text |-> "7"]
        /\ task[id].variables_info["n"] = [kind |-> "int", text |-> "7"]
        /\ task[id].runtime_variables["b"] = NoValue
        /\ task[id].variables_info["b"] = VarDefault("b")

====
